---------------------------- MODULE Spec2Model ----------------------------
(***************************************************************************)
(* A model of the DevReplay language server (src/src/server.ts).           *)
(*                                                                         *)
(* Four specifications share this module:                                  *)
(*   Spec          one text document's life cycle (open, change, save,     *)
(*                 close), validate, and the code-action handler, with the *)
(*                 rule catalog file and the document's file on disk       *)
(*                 changing underneath;                                    *)
(*   SpecCatalog   the rule catalog store: tryReadFile, readCurrentPattern,*)
(*                 writePattern and disableRule on the catalog file;       *)
(*   SpecRace      catalog mutations issued to the server one after another;*)
(*   SpecSeverity  the pure function adjustSeverityForOverride.            *)
(*                                                                         *)
(* The state is the state after onInitialize has run with one workspace    *)
(* folder: the document listeners are only registered there (line 43).     *)
(* The external matcher (devreplay's lint / fixWithRules) is a             *)
(* deterministic function of the target file's text on disk and of the     *)
(* catalog's rules.                                                        *)
(***************************************************************************)
EXTENDS Integers, Sequences, FiniteSets, TLC

VARIABLES
    uri,        \* the URI (as a path) of the document this behaviour follows
    doc,        \* the document store's entry for uri: open?, text, version
    disk,       \* the text of the document's file on disk
    catalog,    \* the rule catalog file <workspace>/.devreplay.json
    published,  \* the last sendDiagnostics for uri
    fresh,      \* no change of disk or catalog since the last validation pass
    lsp,        \* what the last document/code-action handler did
    cat,        \* what the last catalog-store operation did
    sev,        \* an adjustSeverityForOverride call: its input and result
    hist        \* the last two catalog mutations completed, in order

vars == <<uri, doc, disk, catalog, published, fresh, lsp, cat, sev, hist>>

----------------------------------------------------------------------------
(* Bounds *)

MaxRules == 2       \* rules in the catalog file
MaxVersion == 2     \* document versions
MaxReq == 2         \* diagnostics in one code-action request

----------------------------------------------------------------------------
(* Rules and the catalog file *)

NoId == "undefined"             \* a rule without ruleId
Undefined == "undefined"

\* enum RuleSeverity: the values of its eight members
RuleSeverity ==
    [info |-> "I", warn |-> "W", error |-> "E", hint |-> "H",
     off |-> "O", default |-> "default", downgrade |-> "downgrade",
     upgrade |-> "upgrade"]

RuleSeverityValues == {RuleSeverity[k] : k \in DOMAIN RuleSeverity}

MkRule(id, before, after, severity) ==
    [ruleId |-> id, before |-> before, after |-> after, severity |-> severity]

\* the rules that are appended to and found in catalogs
R1 == MkRule("R1", "a", "b", "W")
R2 == MkRule("R2", "b", "", "I")
R3 == MkRule(NoId, "a", "c", "H")
RulePool == {R1, R2, R3}
\* a rule whose severity is an override directive: writePattern takes any
\* Rule[] and checks no field of it
R4 == MkRule("R4", "b", "c", "O")

RECURSIVE SeqsUpTo(_, _)
SeqsUpTo(S, n) ==
    IF n = 0 THEN {<<>>}
    ELSE LET shorter == SeqsUpTo(S, n - 1)
         IN  shorter \cup {Append(s, x) : s \in {t \in shorter : Len(t) = n - 1}, x \in S}

\* A file: kind is absent | unreadable | json (a JSON array of rules) |
\* garbage (content JSON.parse rejects).  b0 and b188 are the file's bytes 0
\* and 188: "G" (0x47), "x" (another byte) or "none" (the file is shorter).
MkFile(kind, b0, b188, rules, indent) ==
    [kind |-> kind, b0 |-> b0, b188 |-> b188, rules |-> rules, indent |-> indent]

AbsentFile == MkFile("absent", "none", "none", <<>>, "none")
UnreadableFile == MkFile("unreadable", "x", "x", <<>>, "none")
\* a write that failed after the file was opened for writing (truncated)
TruncatedFile == MkFile("garbage", "none", "none", <<>>, "none")
\* JSON text starts with "[" (or white space), never with 0x47
JsonFile(rules, indent, b188) == MkFile("json", "x", b188, rules, indent)

GarbageFiles ==
    { MkFile("garbage", "G", "G", <<>>, "none"),      \* MPEG transport stream
      MkFile("garbage", "G", "x", <<>>, "none"),
      MkFile("garbage", "G", "none", <<>>, "none"),   \* shorter than 189 bytes
      MkFile("garbage", "x", "G", <<>>, "none"),
      MkFile("garbage", "x", "x", <<>>, "none"),
      TruncatedFile }


\* JSON.stringify(rules, undefined|null, indent): the text written to the file
JsonStringify(rules, indent) == JsonFile(rules, indent, "x")

\* JSON.parse(text): the rules of a JSON file, a SyntaxError for anything else
JsonParse(file) ==
    IF file.kind = "json"
    THEN [threw |-> "none", rules |-> file.rules]
    ELSE [threw |-> "SyntaxError", rules |-> <<>>]

\* A byte of the 256-byte header buffer: Buffer.allocUnsafe leaves the bytes
\* the file does not cover uninitialized (junk is what happens to be there).
HeaderByte(b, junk) == IF b = "none" THEN junk ELSE b

\* the guard's test (line 289): buffer.readInt8(0) === 0x47 &&
\* buffer.readInt8(188) === 0x47
IsTransportStream(file, junk0, junk188) ==
    /\ HeaderByte(file.b0, junk0) = "G"
    /\ HeaderByte(file.b188, junk188) = "G"

\* tryReadFile(filename): throws when the file does not exist or cannot be
\* opened, returns undefined for a transport stream, else the file's text.
tryReadFile(file, junk0, junk188) ==
    IF file.kind = "absent" THEN [threw |-> "Error", content |-> FALSE]
    ELSE IF file.kind = "unreadable" THEN [threw |-> "EACCES", content |-> FALSE]
    ELSE IF IsTransportStream(file, junk0, junk188)
         THEN [threw |-> "none", content |-> FALSE]
         ELSE [threw |-> "none", content |-> TRUE]

\* readCurrentPattern(): the catch covers tryReadFile only; JSON.parse runs
\* outside it.  parsed: JSON.parse was called on the file's text.
readCurrentPattern(file, junk0, junk188) ==
    LET rd == tryReadFile(file, junk0, junk188)
    IN  IF rd.threw # "none" \/ ~rd.content
        THEN [threw |-> "none", rules |-> <<>>, parsed |-> FALSE]
        ELSE [threw |-> JsonParse(file).threw, rules |-> JsonParse(file).rules,
              parsed |-> TRUE]

\* fs.writeFileSync(path, text) with outcome ok | openfail (the open throws,
\* the file is untouched) | partial (the write throws after the open
\* truncated the file)
WriteOutcomes == {"ok", "openfail", "partial"}

writeFileSync(file, text, outcome) ==
    CASE outcome = "ok" -> [threw |-> "none", file |-> text]
      [] outcome = "openfail" -> [threw |-> "WriteError", file |-> file]
      [] OTHER -> [threw |-> "WriteError", file |-> TruncatedFile]

\* writePattern without the try/catch around the write: the error propagates
writePatternUncaught(rules, file, junk0, junk188, outcome) ==
    LET rd == readCurrentPattern(file, junk0, junk188)
        outPatterns == rd.rules \o rules
        wr == writeFileSync(file, JsonStringify(outPatterns, "2sp"), outcome)
    IN  IF rd.threw # "none"
        THEN [threw |-> rd.threw, file |-> file, parsed |-> rd.parsed,
              loaded |-> <<>>, wrote |-> FALSE, writeFailed |-> FALSE, logged |-> FALSE]
        ELSE [threw |-> wr.threw, file |-> wr.file, parsed |-> rd.parsed,
              loaded |-> rd.rules, wrote |-> TRUE,
              writeFailed |-> (wr.threw # "none"), logged |-> FALSE]

\* writePattern with the operands of concat exchanged: rules.concat(loaded)
writePatternPrepend(rules, file, junk0, junk188, outcome) ==
    LET rd == readCurrentPattern(file, junk0, junk188)
        outPatterns == rules \o rd.rules
        wr == writeFileSync(file, JsonStringify(outPatterns, "2sp"), outcome)
    IN  IF rd.threw # "none"
        THEN [threw |-> rd.threw, file |-> file, parsed |-> rd.parsed,
              loaded |-> <<>>, wrote |-> FALSE, writeFailed |-> FALSE, logged |-> FALSE]
        ELSE [threw |-> "none", file |-> wr.file, parsed |-> rd.parsed,
              loaded |-> rd.rules, wrote |-> TRUE,
              writeFailed |-> (wr.threw # "none"), logged |-> (wr.threw # "none")]

\* writePattern(rules): read, concatenate, stringify with 2 spaces, write;
\* a failed write is caught and its name logged.
writePattern(rules, file, junk0, junk188, outcome) ==
    LET rd == readCurrentPattern(file, junk0, junk188)
        outPatterns == rd.rules \o rules
        wr == writeFileSync(file, JsonStringify(outPatterns, "2sp"), outcome)
    IN  IF rd.threw # "none"
        THEN [threw |-> rd.threw, file |-> file, parsed |-> rd.parsed,
              loaded |-> <<>>, wrote |-> FALSE, writeFailed |-> FALSE, logged |-> FALSE]
        ELSE [threw |-> "none", file |-> wr.file, parsed |-> rd.parsed,
              loaded |-> rd.rules, wrote |-> TRUE,
              writeFailed |-> (wr.threw # "none"), logged |-> (wr.threw # "none")]

\* rules.findIndex((r) => r.ruleId === ruleId), as a 1-based index, 0 for -1
RECURSIVE FindIndexFrom(_, _, _)
FindIndexFrom(rules, ruleId, i) ==
    IF i > Len(rules) THEN 0
    ELSE IF rules[i].ruleId = ruleId THEN i
    ELSE FindIndexFrom(rules, ruleId, i + 1)

findIndex(rules, ruleId) == FindIndexFrom(rules, ruleId, 1)

\* disableRule with the TODO of line 179 carried out: the severity set to off
disableRuleOff(rule, file, outcome) ==
    LET pr == JsonParse(file)
        ruleIndex == findIndex(pr.rules, rule.ruleId)
        edited == [pr.rules EXCEPT ![ruleIndex].severity = "O"]
        wr == writeFileSync(file, JsonStringify(edited, "tab"), outcome)
        stop(err, parsed) ==
            [threw |-> err, file |-> file, parsed |-> parsed, loaded |-> pr.rules,
             wrote |-> FALSE, writeFailed |-> FALSE, logged |-> FALSE]
    IN  IF file.kind = "absent" THEN stop("ENOENT", FALSE)
        ELSE IF file.kind = "unreadable" THEN stop("EACCES", FALSE)
        ELSE IF pr.threw # "none" THEN stop(pr.threw, TRUE)
        ELSE IF ruleIndex = 0 THEN stop("TypeError", TRUE)
        ELSE [threw |-> wr.threw, file |-> wr.file, parsed |-> TRUE,
              loaded |-> pr.rules, wrote |-> TRUE,
              writeFailed |-> (wr.threw # "none"), logged |-> FALSE]

\* disableRule(rule): fs.readFileSync and JSON.parse directly (no guard, no
\* catch), rules[ruleIndex].severity = 'E' (rules[-1] is undefined), then an
\* uncaught fs.writeFileSync with a tab indent.
disableRule(rule, file, outcome) ==
    LET pr == JsonParse(file)
        ruleIndex == findIndex(pr.rules, rule.ruleId)
        edited == [pr.rules EXCEPT ![ruleIndex].severity = "E"]
        wr == writeFileSync(file, JsonStringify(edited, "tab"), outcome)
        stop(err, parsed) ==
            [threw |-> err, file |-> file, parsed |-> parsed, loaded |-> pr.rules,
             wrote |-> FALSE, writeFailed |-> FALSE, logged |-> FALSE]
    IN  IF file.kind = "absent" THEN stop("ENOENT", FALSE)
        ELSE IF file.kind = "unreadable" THEN stop("EACCES", FALSE)
        ELSE IF pr.threw # "none" THEN stop(pr.threw, TRUE)
        ELSE IF ruleIndex = 0 THEN stop("TypeError", TRUE)
        ELSE [threw |-> wr.threw, file |-> wr.file, parsed |-> TRUE,
              loaded |-> pr.rules, wrote |-> TRUE,
              writeFailed |-> (wr.threw # "none"), logged |-> FALSE]

\* the severity a disableRule(rule) call asks for (line 179: "off")
RequestedSeverity == "O"

----------------------------------------------------------------------------
(* Severities *)

DiagnosticSeverity == [Error |-> 1, Warning |-> 2, Information |-> 3, Hint |-> 4]

BaseCodes == {RuleSeverity.info, RuleSeverity.warn, RuleSeverity.error, RuleSeverity.hint}

\* convertSeverityToDiagnostic without its case 'H' and its default
convertSeverityNoHint(severity) ==
    CASE severity = "E" -> DiagnosticSeverity.Error
      [] severity = "W" -> DiagnosticSeverity.Warning
      [] severity = "I" -> DiagnosticSeverity.Information
      [] OTHER -> 0

convertSeverityToDiagnostic(severity) ==
    CASE severity = "E" -> DiagnosticSeverity.Error
      [] severity = "W" -> DiagnosticSeverity.Warning
      [] severity = "I" -> DiagnosticSeverity.Information
      [] severity = "H" -> DiagnosticSeverity.Hint
      [] OTHER -> DiagnosticSeverity.Warning

\* a switch none of whose cases matched: control falls out of it
NoReturn == "no return"

\* the inner switch of case RuleSeverity.downgrade (lines 224-232)
DowngradeCase(severity) ==
    LET d == convertSeverityToDiagnostic(severity)
    IN  CASE d = DiagnosticSeverity.Error -> RuleSeverity.warn
          [] d = DiagnosticSeverity.Warning -> RuleSeverity.info
          [] d \in {DiagnosticSeverity.Information, DiagnosticSeverity.Hint} -> RuleSeverity.hint
          [] OTHER -> NoReturn

\* the upgrade switch with case Information returning error, one level too far
UpgradeCaseTwoLevels(severity) ==
    LET d == convertSeverityToDiagnostic(severity)
    IN  CASE d = DiagnosticSeverity.Hint -> RuleSeverity.info
          [] d \in {DiagnosticSeverity.Information, DiagnosticSeverity.Warning,
                    DiagnosticSeverity.Error} -> RuleSeverity.error
          [] OTHER -> NoReturn

\* the inner switch of case RuleSeverity.upgrade (lines 235-243)
UpgradeCase(severity) ==
    LET d == convertSeverityToDiagnostic(severity)
    IN  CASE d = DiagnosticSeverity.Hint -> RuleSeverity.info
          [] d = DiagnosticSeverity.Information -> RuleSeverity.warn
          [] d \in {DiagnosticSeverity.Warning, DiagnosticSeverity.Error} -> RuleSeverity.error
          [] OTHER -> NoReturn

\* adjustSeverityForOverride(severity, severityOverride): the value returned
\* and the case whose return statement returned it.  There is no break after
\* the inner switches: a downgrade that returns nothing falls into the upgrade
\* case, and that into default.
adjustSeverityForOverride(severity, severityOverride) ==
    LET fromDefault == [value |-> severity, via |-> "default"]
        fromUpgrade ==
            IF UpgradeCase(severity) # NoReturn
            THEN [value |-> UpgradeCase(severity), via |-> "upgrade"]
            ELSE fromDefault
        fromDowngrade ==
            IF DowngradeCase(severity) # NoReturn
            THEN [value |-> DowngradeCase(severity), via |-> "downgrade"]
            ELSE fromUpgrade
    IN  CASE severityOverride \in {RuleSeverity.off, RuleSeverity.info, RuleSeverity.warn,
                                   RuleSeverity.error, RuleSeverity.hint}
                -> [value |-> severityOverride, via |-> "explicit"]
          [] severityOverride = RuleSeverity.downgrade -> fromDowngrade
          [] severityOverride = RuleSeverity.upgrade -> fromUpgrade
          [] OTHER -> fromDefault

Overrides == RuleSeverityValues \cup {Undefined}

NoSev == [base |-> "W", override |-> Undefined, value |-> NoReturn, via |-> "none", done |-> FALSE]

----------------------------------------------------------------------------
(* The catalog store's operations as actions *)

NoCat ==
    [op |-> "none", ruleId |-> NoId, appended |-> <<>>, before |-> AbsentFile,
     threw |-> "none", returned |-> <<>>, parsed |-> FALSE, wrote |-> FALSE,
     writeFailed |-> FALSE, logged |-> FALSE]

\* what an uninitialized header byte may hold; only a byte the file does not
\* cover is left to chance
Junk(b) == IF b = "none" THEN {"G", "x"} ELSE {"x"}

\* the rule sequences of at most MaxRules rules of the pool
RuleSeqs == SeqsUpTo(RulePool, MaxRules)

\* the files an editor or another program may leave at the catalog's path
CatalogFiles ==
    {AbsentFile, UnreadableFile} \cup GarbageFiles
    \cup {JsonFile(rs, "2sp", "x") : rs \in RuleSeqs}
    \cup {JsonFile(<<R1>>, "2sp", "G")}      \* byte 188 alone is 0x47

\* load(): readCurrentPattern()
Load ==
    \E junk0 \in Junk(catalog.b0), junk188 \in Junk(catalog.b188) :
        LET r == readCurrentPattern(catalog, junk0, junk188)
        IN  /\ cat' = [NoCat EXCEPT !.op = "load", !.before = catalog,
                          !.threw = r.threw, !.returned = r.rules, !.parsed = r.parsed]
            /\ UNCHANGED <<catalog, uri, doc, disk, published, fresh, lsp, sev, hist>>

\* the rule sequences a caller may hand to writePattern
AppendSeqs == SeqsUpTo(RulePool \cup {R4}, MaxRules)

\* append(rules): writePattern(rules)
AppendRules ==
    \E rules \in AppendSeqs, junk0 \in Junk(catalog.b0), junk188 \in Junk(catalog.b188),
       outcome \in WriteOutcomes :
        LET r == writePattern(rules, catalog, junk0, junk188, outcome)
        IN  /\ Len(catalog.rules) + Len(rules) <= MaxRules
            /\ catalog' = r.file
            /\ cat' = [NoCat EXCEPT !.op = "append", !.appended = rules,
                          !.before = catalog, !.threw = r.threw, !.returned = r.loaded,
                          !.parsed = r.parsed, !.wrote = r.wrote,
                          !.writeFailed = r.writeFailed, !.logged = r.logged]
            /\ UNCHANGED <<uri, doc, disk, published, fresh, lsp, sev, hist>>

\* the rules disableRule may be asked to disable: one of the pool, or one
\* whose ruleId no catalog rule carries
DisableTargets == RulePool \cup {MkRule("R9", "a", "b", "W")}

\* setSeverity: disableRule(rule)
DisableRule ==
    \E rule \in DisableTargets, outcome \in WriteOutcomes :
        LET r == disableRule(rule, catalog, outcome)
        IN  /\ catalog' = r.file
            /\ cat' = [NoCat EXCEPT !.op = "disable", !.ruleId = rule.ruleId,
                          !.before = catalog, !.threw = r.threw, !.returned = r.loaded,
                          !.parsed = r.parsed, !.wrote = r.wrote,
                          !.writeFailed = r.writeFailed, !.logged = r.logged]
            /\ UNCHANGED <<uri, doc, disk, published, fresh, lsp, sev, hist>>

\* adjustSeverityForOverride is called on the chosen input
Adjust ==
    /\ ~sev.done
    /\ LET r == adjustSeverityForOverride(sev.base, sev.override)
       IN  sev' = [sev EXCEPT !.value = r.value, !.via = r.via, !.done = TRUE]
    /\ UNCHANGED <<uri, doc, disk, catalog, published, fresh, lsp, cat, hist>>

----------------------------------------------------------------------------
(* Paths, texts and the external matcher *)

\* A path is a sequence of pieces; a URI is a scheme and a path.
MkUri(path) == [scheme |-> "file", path |-> path]

\* URI.parse(x).fsPath
fsPath(u) == u.path

\* String.prototype.endsWith
endsWith(s, t) ==
    /\ Len(t) <= Len(s)
    /\ SubSeq(s, Len(s) - Len(t) + 1, Len(s)) = t

workspaceFolder == [uri |-> MkUri(<<"ws">>)]

\* getDevReplayPath(): path.join(workspaceFolder.uri, '.devreplay.json').
\* readCurrentPattern and writePattern hand this value to fs as it is, lintFile
\* and disableRule hand fs its fsPath: the model takes both to name one file,
\* the variable catalog.
getDevReplayPath == MkUri(Append(workspaceFolder.uri.path, ".devreplay.json"))

\* the documents a client may open
Uris ==
    { MkUri(<<"ws", "a.ts">>),
      MkUri(<<"ws", ".devreplay.json">>),            \* the catalog itself
      MkUri(<<"tmp", "ws", ".devreplay.json">>),     \* ends with the catalog's path
      MkUri(<<"ws", "repo", ".git">>),
      MkUri(<<"ws", ".git", "config">>) }            \* inside .git, not ending with it

\* A text is a sequence of one-character tokens; "nl" ends a line.
TextPool == { <<>>, <<"a">>, <<"b", "nl", "a">> }

LastBreak(text, k) ==
    LET breaks == {j \in 1..(k - 1) : text[j] = "nl"}
    IN  IF breaks = {} THEN 0 ELSE CHOOSE j \in breaks : \A i \in breaks : i <= j

\* 1-based line and character of token k, as the matcher reports them
LineOf(text, k) == 1 + Cardinality({j \in 1..(k - 1) : text[j] = "nl"})
CharOf(text, k) == k - LastBreak(text, k)

PositionOf(text, k) ==
    [start |-> [line |-> LineOf(text, k), character |-> CharOf(text, k)],
     end |-> [line |-> LineOf(text, k), character |-> CharOf(text, k) + 1]]

\* the findings of one rule in a text, from token k on, in text order
RECURSIVE MatchesFrom(_, _, _)
MatchesFrom(rule, text, k) ==
    IF k > Len(text) THEN <<>>
    ELSE (IF text[k] = rule.before
          THEN <<[rule |-> rule, position |-> PositionOf(text, k)]>>
          ELSE <<>>) \o MatchesFrom(rule, text, k + 1)

RECURSIVE LintWithRules(_, _, _)
LintWithRules(text, rules, i) ==
    IF i > Len(rules) THEN <<>>
    ELSE MatchesFrom(rules[i], text, 1) \o LintWithRules(text, rules, i + 1)

\* devreplay's lint([fileName], ruleFile): it reads the target from disk and the
\* rules from the catalog file (no rules when the file holds no JSON array)
lint(fileText, ruleFileContent) ==
    LintWithRules(fileText,
                  IF ruleFileContent.kind = "json" THEN ruleFileContent.rules ELSE <<>>, 1)

\* devreplay's makeSeverity: the rule's severity code, W when it is none
makeSeverity(severity) == IF severity \in BaseCodes THEN severity ELSE "W"

\* devreplay's code2String: the message of a rule
code2String(rule) == <<rule.before, "should be", rule.after>>

\* devreplay's fixWithRules(text, [rule]): the text with the rule's pattern
\* replaced, undefined when the pattern does not occur
fixWithRules(text, rule) ==
    IF \E k \in 1..Len(text) : text[k] = rule.before
    THEN [defined |-> TRUE,
          text |-> [k \in 1..Len(text) |-> IF text[k] = rule.before THEN rule.after ELSE text[k]]]
    ELSE [defined |-> FALSE, text |-> <<>>]

\* TextDocument.getText(range), range 0-based and within one line
getText(text, range) ==
    LET inside(k) ==
            /\ text[k] # "nl"
            /\ LineOf(text, k) = range.start.line + 1
            /\ CharOf(text, k) >= range.start.character + 1
            /\ CharOf(text, k) < range.end.character + 1
        at == SelectSeq([k \in 1..Len(text) |-> k], inside)
    IN  [i \in 1..Len(at) |-> text[at[i]]]

----------------------------------------------------------------------------
(* validate and the code-action handler *)

\* lintFile excluding only the catalog's exact path (== for endsWith)
lintFileExactPath(docUri, fileText, ruleFileContent) ==
    LET ruleFile == fsPath(getDevReplayPath)
        fileName == fsPath(docUri)
    IN  IF fileName = ruleFile \/ endsWith(fileName, <<".git">>)
        THEN [calls |-> <<>>, results |-> <<>>]
        ELSE [calls |-> <<[files |-> <<fileName>>, ruleFile |-> ruleFile]>>,
              results |-> lint(fileText, ruleFileContent)]

\* lintFile(doc): the matcher's calls and the findings returned
lintFile(docUri, fileText, ruleFileContent) ==
    LET ruleFile == fsPath(getDevReplayPath)
        fileName == fsPath(docUri)
    IN  IF endsWith(fileName, ruleFile) \/ endsWith(fileName, <<".git">>)
        THEN [calls |-> <<>>, results |-> <<>>]
        ELSE [calls |-> <<[files |-> <<fileName>>, ruleFile |-> ruleFile]>>,
              results |-> lint(fileText, ruleFileContent)]

\* makeDiagnostic keeping the matcher's 1-based characters
makeDiagnosticOneBased(result, code) ==
    [range |->
        [start |-> [line |-> result.position.start.line - 1,
                    character |-> result.position.start.character],
         end |-> [line |-> result.position.end.line - 1,
                  character |-> result.position.end.character]],
     message |-> code2String(result.rule),
     severity |-> convertSeverityToDiagnostic(makeSeverity(result.rule.severity)),
     code |-> code,
     source |-> "devreplay"]

\* makeDiagnostic(result, code)
makeDiagnostic(result, code) ==
    [range |->
        [start |-> [line |-> result.position.start.line - 1,
                    character |-> result.position.start.character - 1],
         end |-> [line |-> result.position.end.line - 1,
                  character |-> result.position.end.character - 1]],
     message |-> code2String(result.rule),
     severity |-> convertSeverityToDiagnostic(makeSeverity(result.rule.severity)),
     code |-> code,
     source |-> "devreplay"]

\* the loop of validate (lines 73-75): diagnostics[i] for results[i], 0-based i
makeDiagnostics(results) ==
    [k \in 1..Len(results) |-> makeDiagnostic(results[k], k - 1)]

\* validate sending its diagnostics as onDidClose does, without a version
validateNoVersion(docUri, document, fileText, ruleFileContent) ==
    LET linted == lintFile(docUri, fileText, ruleFileContent)
    IN  [calls |-> linted.calls,
         results |-> linted.results,
         sent |-> [uri |-> docUri, version |-> 0,
                   diagnostics |-> makeDiagnostics(linted.results)]]

\* validate(document): lint, map, and the sendDiagnostics parameters
validate(docUri, document, fileText, ruleFileContent) ==
    LET linted == lintFile(docUri, fileText, ruleFileContent)
    IN  [calls |-> linted.calls,
         results |-> linted.results,
         sent |-> [uri |-> docUri, version |-> document.version,
                   diagnostics |-> makeDiagnostics(linted.results)]]

\* makeFixTitle(ruleId)
makeFixTitle(ruleId) ==
    IF ruleId # NoId THEN <<"Fix to", ruleId>> ELSE <<"Fix by DevReplay">>

\* createEditByPattern testing `if (newText)`: an empty string counts as no text
createEditByPatternTruthy(docUri, document, range, pattern) ==
    LET newText == fixWithRules(getText(document.text, range), pattern)
    IN  IF newText.defined /\ (\E k \in 1..Len(newText.text) : newText.text[k] # "")
        THEN [documentChanges |->
                <<[textDocument |-> [uri |-> docUri, version |-> document.version],
                   edits |-> <<[range |-> range, newText |-> newText.text]>>]>>]
        ELSE [documentChanges |-> <<>>]

\* createEditByPattern(document, range, pattern)
createEditByPattern(docUri, document, range, pattern) ==
    LET newText == fixWithRules(getText(document.text, range), pattern)
    IN  IF newText.defined
        THEN [documentChanges |->
                <<[textDocument |-> [uri |-> docUri, version |-> document.version],
                   edits |-> <<[range |-> range, newText |-> newText.text]>>]>>]
        ELSE [documentChanges |-> <<>>]

\* the forEach body taking the rule of the first finding, whatever the code
makeFixActionFirst(docUri, document, results, diagnostic) ==
    LET targetRule == results[1]
    IN  [title |-> makeFixTitle(targetRule.rule.ruleId),
         edit |-> createEditByPattern(docUri, document, diagnostic.range, targetRule.rule),
         kind |-> "quickfix",
         diagnostics |-> <<diagnostic>>]

\* the body of diagnostics.forEach (lines 138-145) where results[code] exists
makeFixAction(docUri, document, results, diagnostic) ==
    LET targetRule == results[diagnostic.code + 1]
    IN  [title |-> makeFixTitle(targetRule.rule.ruleId),
         edit |-> createEditByPattern(docUri, document, diagnostic.range, targetRule.rule),
         kind |-> "quickfix",
         diagnostics |-> <<diagnostic>>]

\* results[Number(diagnostic.code)] is undefined: targetRule.rule throws
hasNoTarget(results, diagnostic) ==
    diagnostic.code + 1 \notin 1..Len(results)

\* the onCodeAction handler (lines 126-149)
onCodeAction(docUri, document, requested, fileText, ruleFileContent) ==
    LET diagnostics == SelectSeq(requested, LAMBDA diag : diag.source = "devreplay")
        linted == lintFile(docUri, fileText, ruleFileContent)
        quiet == [threw |-> "none", calls |-> <<>>, results |-> <<>>, actions |-> <<>>]
    IN  IF Len(diagnostics) = 0 THEN quiet
        ELSE IF ~document.open THEN quiet
        ELSE IF \E k \in 1..Len(diagnostics) : hasNoTarget(linted.results, diagnostics[k])
        THEN [threw |-> "TypeError", calls |-> linted.calls,
              results |-> linted.results, actions |-> <<>>]
        ELSE [threw |-> "none", calls |-> linted.calls, results |-> linted.results,
              actions |-> [k \in 1..Len(diagnostics) |->
                            makeFixAction(docUri, document, linted.results, diagnostics[k])]]

----------------------------------------------------------------------------
(* The document's events as actions *)

ClosedDoc == [open |-> FALSE, text |-> <<>>, version |-> 0]

\* nothing sent yet; a sendDiagnostics without a version has version 0.
\* last: the version of the last publication that carried one (0: none yet)
NoPub ==
    [sent |-> FALSE, version |-> 0, diagnostics |-> <<>>, findings |-> <<>>,
     last |-> 0]

NoLsp ==
    [op |-> "none", threw |-> "none", calls |-> <<>>, results |-> <<>>,
     request |-> <<>>, actions |-> <<>>, sent |-> FALSE]

MainUri == MkUri(<<"ws", "a.ts">>)

\* validate(event.document) for the document as the event leaves it
Validated(op, document) ==
    LET v == validate(uri, document, disk, catalog)
    IN  /\ doc' = document
        /\ published' = [sent |-> TRUE, version |-> v.sent.version,
                         diagnostics |-> v.sent.diagnostics, findings |-> v.results,
                         last |-> v.sent.version]
        /\ lsp' = [NoLsp EXCEPT !.op = op, !.calls = v.calls, !.results = v.results,
                                !.sent = TRUE]
        /\ fresh' = TRUE
        /\ UNCHANGED <<uri, disk, catalog, cat, sev, hist>>

\* documents.onDidOpen.  The version is the client's: it numbers a document
\* it opens from 1, also one it had open before.
DidOpen ==
    /\ ~doc.open
    /\ \E text \in TextPool :
        Validated("open", [open |-> TRUE, text |-> text, version |-> 1])

\* documents.onDidChangeContent
DidChangeContent ==
    /\ doc.open
    /\ doc.version < MaxVersion
    /\ \E text \in TextPool \ {doc.text} :
        Validated("change", [doc EXCEPT !.text = text, !.version = doc.version + 1])

\* documents.onDidSave
DidSave ==
    /\ doc.open
    /\ Validated("save", doc)

\* onDidClose forgetting the document without sending anything
DidCloseSilent ==
    /\ doc.open
    /\ doc' = ClosedDoc
    /\ lsp' = [NoLsp EXCEPT !.op = "close"]
    /\ UNCHANGED <<uri, disk, catalog, published, fresh, cat, sev, hist>>

\* documents.onDidClose
DidClose ==
    /\ doc.open
    /\ doc' = ClosedDoc
    /\ published' = [NoPub EXCEPT !.sent = TRUE, !.last = published.last]
    /\ lsp' = [NoLsp EXCEPT !.op = "close", !.sent = TRUE]
    /\ UNCHANGED <<uri, disk, catalog, fresh, cat, sev, hist>>

ZeroRange ==
    [start |-> [line |-> 0, character |-> 0], end |-> [line |-> 0, character |-> 1]]

\* a diagnostic of another tool
ForeignDiag ==
    [range |-> ZeroRange, message |-> <<"unused">>, severity |-> 1, code |-> 0,
     source |-> "eslint"]

\* a diagnostic the client kept from an earlier pass
KeptDiag ==
    [range |-> ZeroRange, message |-> <<"a", "should be", "b">>, severity |-> 2,
     code |-> 1, source |-> "devreplay"]

\* what a client may put in params.context.diagnostics
Requests ==
    SeqsUpTo({published.diagnostics[k] : k \in 1..Len(published.diagnostics)}
             \cup {ForeignDiag, KeptDiag}, MaxReq)

\* connection.onCodeAction.  The handler changes no state of the server (lsp
\* only records its answer), so a request that follows a request reaches
\* nothing the first one does not: requests are explored from the states the
\* other handlers leave.
CodeAction ==
    /\ lsp.op # "codeAction"
    /\ \E requested \in Requests :
        LET r == onCodeAction(uri, doc, requested, disk, catalog)
        IN  /\ lsp' = [NoLsp EXCEPT !.op = "codeAction", !.threw = r.threw,
                          !.calls = r.calls, !.results = r.results,
                          !.request = requested, !.actions = r.actions]
            /\ UNCHANGED <<uri, doc, disk, catalog, published, fresh, cat, sev, hist>>

\* the document's file is written (a save by the client, another program)
DiskChanged ==
    \E text \in TextPool \ {disk} :
        /\ disk' = text
        /\ fresh' = FALSE
        /\ lsp' = [NoLsp EXCEPT !.op = "env"]
        /\ UNCHANGED <<uri, doc, catalog, published, cat, sev, hist>>

\* the catalogs the document is linted with
LintCatalogs ==
    { AbsentFile, JsonFile(<<R1>>, "2sp", "x"), JsonFile(<<R1, R3>>, "2sp", "x"),
      JsonFile(<<R2, R1>>, "2sp", "x") }

\* the catalog file changes under the open document (writePattern,
\* disableRule, an editor): no document event follows from it
CatalogChanged ==
    \E f \in LintCatalogs \ {catalog} :
        /\ catalog' = f
        /\ fresh' = FALSE
        /\ lsp' = [NoLsp EXCEPT !.op = "env"]
        /\ UNCHANGED <<uri, doc, disk, published, cat, sev, hist>>

\* the catalog file is replaced from outside the server.  A replacement that
\* follows a replacement reaches nothing the first one does not.
EnvCatalog ==
    \E f \in CatalogFiles \ {catalog} :
        /\ cat.op # "env"
        /\ catalog' = f
        /\ cat' = [NoCat EXCEPT !.op = "env"]
        /\ UNCHANGED <<uri, doc, disk, published, fresh, lsp, sev, hist>>

----------------------------------------------------------------------------
(* A series of catalog mutations issued to the server *)

\* a call that read the file before the call ahead of it wrote
fileReadEarly(done, file) ==
    IF Len(done) > 0 /\ done[Len(done)].ok THEN done[Len(done)].before ELSE file

\* The file a catalog mutation reads, `done` being the calls issued before
\* it.  writePattern and disableRule read and write with the synchronous fs
\* calls and return without yielding, and the connection runs one handler at
\* a time: when a call reads, every call issued before it has written.
fileRead(done, file) == file

\* what a completed call leaves in hist
Completed(op, file, r) ==
    [op |-> op, before |-> file, view |-> r.loaded, threw |-> r.threw,
     ok |-> r.wrote /\ ~r.writeFailed, after |-> r.file]

\* hist after one more completed call: the call before it, and it
Remember(done, rec) ==
    IF Len(done) = 0 THEN <<rec>> ELSE <<done[Len(done)], rec>>

\* the rules the calls of a series append, and ask to disable
RaceRules == {R1, R2}

\* the catalogs a series of mutations starts from
RaceCatalogs == {JsonFile(<<>>, "2sp", "x"), JsonFile(<<R1>>, "2sp", "x"),
                 JsonFile(<<R2>>, "2sp", "x")}

\* writePattern([rule]) as one call of the series
RaceAppend ==
    /\ Len(catalog.rules) < MaxRules
    /\ \E rule \in RaceRules, outcome \in WriteOutcomes :
        LET seen == fileRead(hist, catalog)
        IN  \E junk0 \in Junk(seen.b0), junk188 \in Junk(seen.b188) :
                LET r == writePattern(<<rule>>, seen, junk0, junk188, outcome)
                IN  /\ catalog' = r.file
                    /\ hist' = Remember(hist, Completed("append", catalog, r))
    /\ UNCHANGED <<uri, doc, disk, published, fresh, lsp, cat, sev>>

\* disableRule(rule) as one call of the series
RaceDisable ==
    /\ \E rule \in RaceRules, outcome \in WriteOutcomes :
        LET r == disableRule(rule, fileRead(hist, catalog), outcome)
        IN  /\ catalog' = r.file
            /\ hist' = Remember(hist, Completed("disable", catalog, r))
    /\ UNCHANGED <<uri, doc, disk, published, fresh, lsp, cat, sev>>

----------------------------------------------------------------------------
(* Specifications *)

Init ==
    /\ uri \in Uris
    /\ doc = ClosedDoc
    /\ disk \in TextPool
    /\ catalog \in LintCatalogs
    /\ published = NoPub
    /\ fresh = FALSE
    /\ lsp = NoLsp
    /\ cat = NoCat
    /\ hist = <<>>
    /\ sev = NoSev

Next ==
    \/ DidOpen
    \/ DidChangeContent
    \/ DidSave
    \/ DidClose
    \/ CodeAction
    \/ DiskChanged
    \/ CatalogChanged

Spec == Init /\ [][Next]_vars

InitCatalog ==
    /\ uri = MainUri
    /\ doc = ClosedDoc
    /\ disk = <<>>
    /\ catalog \in CatalogFiles
    /\ published = NoPub
    /\ fresh = FALSE
    /\ lsp = NoLsp
    /\ cat = NoCat
    /\ hist = <<>>
    /\ sev = NoSev

NextCatalog ==
    \/ Load
    \/ AppendRules
    \/ DisableRule
    \/ EnvCatalog

SpecCatalog == InitCatalog /\ [][NextCatalog]_vars

InitSeverity ==
    /\ uri = MainUri
    /\ doc = ClosedDoc
    /\ disk = <<>>
    /\ catalog = AbsentFile
    /\ published = NoPub
    /\ fresh = FALSE
    /\ lsp = NoLsp
    /\ cat = NoCat
    /\ hist = <<>>
    /\ \E base \in RuleSeverityValues, override \in Overrides :
        sev = [NoSev EXCEPT !.base = base, !.override = override]

NextSeverity == Adjust

SpecSeverity == InitSeverity /\ [][NextSeverity]_vars

InitRace ==
    /\ uri = MainUri
    /\ doc = ClosedDoc
    /\ disk = <<>>
    /\ catalog \in RaceCatalogs
    /\ published = NoPub
    /\ fresh = FALSE
    /\ lsp = NoLsp
    /\ cat = NoCat
    /\ sev = NoSev
    /\ hist = <<>>

NextRace ==
    \/ RaceAppend
    \/ RaceDisable

\* a call issued to the server is run: the connection dispatches every
\* message it receives
SpecRace == InitRace /\ [][NextRace]_vars /\ WF_vars(NextRace)

----------------------------------------------------------------------------
(* Properties *)

ValidationOps == {"open", "change", "save"}

IsDevReplay(diag) == diag.source = "devreplay"

\* the diagnostics of the last code-action request the handler keeps
Requested == SelectSeq(lsp.request, IsDevReplay)

IsPublished(diag) ==
    \E k \in 1..Len(published.diagnostics) : published.diagnostics[k] = diag

\* C2: after a validation pass whose lint returned n findings, exactly n
\* diagnostics are published, in the findings' order; the i-th (0-based) has
\* code i, source "devreplay" and the i-th finding's position with 1
\* subtracted from every line and character.
C2_DiagnosticMapping ==
    lsp.op \in ValidationOps =>
        /\ published.sent
        /\ lsp.results = lintFile(uri, disk, catalog).results
        /\ Len(published.diagnostics) = Len(lsp.results)
        /\ \A k \in 1..Len(lsp.results) :
            LET d == published.diagnostics[k]
                p == lsp.results[k].position
            IN  /\ d.code = k - 1
                /\ d.source = "devreplay"
                /\ d.range.start.line = p.start.line - 1
                /\ d.range.start.character = p.start.character - 1
                /\ d.range.end.line = p.end.line - 1
                /\ d.range.end.character = p.end.character - 1

\* two findings, the second on line 2 of the file, have just been published
C2_Witness ==
    /\ lsp.op = "save"
    /\ Len(lsp.results) = 2
    /\ lsp.results[2].position.start.line = 2
    /\ published.diagnostics[2].code = 1
    /\ published.diagnostics[2].range.start.line = 1


\* C1: when neither the document, its file nor the catalog changed since
\* the last validation pass, a code-action request for diagnostics that pass
\* published returns, for each of them, an action built from the rule of the
\* finding at the diagnostic's ordinal in that pass (findings[i].rule gives
\* the title and the edit) and attached to exactly that diagnostic.
C1_OrdinalRoundTrip ==
    (lsp.op = "codeAction" /\ fresh /\ doc.open) =>
        /\ (\A k \in 1..Len(Requested) : IsPublished(Requested[k])) =>
                /\ lsp.threw = "none"
                /\ Len(lsp.actions) = Len(Requested)
                /\ \A k \in 1..Len(Requested) :
                        lsp.actions[k].diagnostics = <<Requested[k]>>
        /\ \A k \in 1..Len(lsp.actions) :
            LET d == lsp.actions[k].diagnostics[1]
                rule == published.findings[d.code + 1].rule
            IN  IsPublished(d) =>
                    /\ published.diagnostics[d.code + 1] = d
                    /\ lsp.actions[k].diagnostics = <<d>>
                    /\ lsp.actions[k].title = makeFixTitle(rule.ruleId)
                    /\ lsp.actions[k].edit = createEditByPattern(uri, doc, d.range, rule)

\* both diagnostics of an unchanged pass were requested, the second first,
\* and the action for ordinal 1 carries an edit
C1_Witness ==
    /\ lsp.op = "codeAction"
    /\ fresh
    /\ doc.open
    /\ Len(published.diagnostics) = 2
    /\ published.findings[1].rule # published.findings[2].rule
    /\ lsp.request = <<published.diagnostics[2], published.diagnostics[1]>>
    /\ Len(lsp.actions) = 2
    /\ Len(lsp.actions[1].edit.documentChanges) = 1

\* C3: on an open document, a request whose "devreplay" diagnostics were
\* published by a pass the file or the catalog has changed since is never an
\* error: the handler returns an action for each of them.
C3_StaleOrdinalNeverAnError ==
    (/\ lsp.op = "codeAction"
     /\ doc.open
     /\ ~fresh
     /\ \A k \in 1..Len(Requested) : IsPublished(Requested[k])) =>
        /\ lsp.threw = "none"
        /\ \A k \in 1..Len(Requested) :
            \E j \in 1..Len(lsp.actions) : lsp.actions[j].diagnostics = <<Requested[k]>>

\* C4: the handler returns one action per requested "devreplay" diagnostic
\* and none for another; it returns the empty list, without calling the
\* matcher, when no requested diagnostic is "devreplay" or the document is
\* not in the document store.
C4_CodeActionContract ==
    lsp.op = "codeAction" =>
        /\ lsp.threw = "none"
        /\ IF Len(Requested) = 0 \/ ~doc.open
           THEN lsp.actions = <<>> /\ lsp.calls = <<>>
           ELSE /\ Len(lsp.actions) = Len(Requested)
                /\ \A k \in 1..Len(Requested) :
                        lsp.actions[k].diagnostics = <<Requested[k]>>

\* the path test of the exclusion rule
IsExcluded(path) ==
    \/ endsWith(path, <<"ws", ".devreplay.json">>)
    \/ endsWith(path, <<".git">>)

\* the handler reached lintFile
Linted ==
    \/ lsp.op \in ValidationOps
    \/ lsp.op = "codeAction" /\ Len(Requested) > 0 /\ doc.open

\* C5: a target whose path ends with the catalog's path or with ".git" is
\* linted to no findings without a matcher call, whatever the catalog holds,
\* and everything published for it is empty; any other target is handed to
\* the matcher alone, with the catalog's path, and the matcher's findings are
\* returned unchanged.
C5_ExclusionInvariant ==
    /\ IsExcluded(uri.path) => published.diagnostics = <<>>
    /\ Linted =>
        IF IsExcluded(uri.path)
        THEN lsp.calls = <<>> /\ lsp.results = <<>>
        ELSE /\ lsp.calls = <<[files |-> <<uri.path>>,
                               ruleFile |-> <<"ws", ".devreplay.json">>]>>
             /\ lsp.results = lint(disk, catalog)

\* a file outside the workspace whose path ends with the catalog's path was
\* validated while the catalog held a rule matching its text
C5_Witness ==
    /\ uri.path = <<"tmp", "ws", ".devreplay.json">>
    /\ lsp.op = "save"
    /\ disk = <<"a">>
    /\ catalog.kind = "json"
    /\ Len(lint(disk, catalog)) > 0
    /\ published.sent
    /\ published.diagnostics = <<>>


\* the catalog file could not be read as rules before the last operation
UnloadableBefore == cat.before.kind \in {"absent", "unreadable", "garbage"}

\* C6: load, alone or as the first step of append, never fails: with the
\* catalog file absent, unreadable, binary or not valid JSON it returns the
\* empty rule sequence.
C6_LoadNeverPropagates ==
    (cat.op \in {"load", "append"} /\ UnloadableBefore) =>
        /\ cat.threw = "none"
        /\ cat.returned = <<>>

\* C7: setSeverity with a ruleId no rule of the catalog carries completes
\* without an error, rewrites the file, and leaves the rules as they were.
C7_UnmatchedSetSeverityIsNoOp ==
    (/\ cat.op = "disable"
     /\ cat.before.kind = "json"
     /\ \A k \in 1..Len(cat.before.rules) : cat.before.rules[k].ruleId # cat.ruleId) =>
        /\ cat.threw = "none"
        /\ cat.wrote
        /\ catalog.kind = "json"
        /\ catalog.rules = cat.before.rules

\* C8 as claimed: whenever the write of the concatenated catalog fails, append
\* fails (the error reaches its caller) and the catalog file is as before.
C8_AppendSignalsFailedWrite ==
    (cat.op = "append" /\ cat.writeFailed) =>
        /\ cat.threw # "none"
        /\ catalog = cat.before

\* C8 as amended: whenever the write of the concatenated catalog fails, append
\* catches the error, logs it and returns normally; the catalog file is as
\* before the call, or truncated when the write failed after the file was
\* opened.
C8_AppendSwallowsFailedWrite ==
    (cat.op = "append" /\ cat.writeFailed) =>
        /\ cat.threw = "none"
        /\ cat.logged
        /\ catalog \in {cat.before, TruncatedFile}

\* a write of a grown catalog failed over a catalog that held a rule
C8_Witness ==
    /\ cat.op = "append"
    /\ cat.writeFailed
    /\ cat.before.kind = "json"
    /\ Len(cat.before.rules) > 0
    /\ Len(cat.appended) > 0
    /\ catalog = cat.before

\* C9: no operation that reads the catalog (load, append, setSeverity) hands
\* a file whose bytes 0 and 188 are both 0x47 to JSON.parse; a readable file
\* with another byte at 0 or at 188 is parsed.
C9_BinaryGuard ==
    cat.op \in {"load", "append", "disable"} =>
        /\ (cat.before.b0 = "G" /\ cat.before.b188 = "G") => ~cat.parsed
        /\ (/\ cat.before.kind \in {"json", "garbage"}
            /\ "x" \in {cat.before.b0, cat.before.b188}) => cat.parsed

\* C10: for a base code in {info, warn, error, hint} and any override,
\* adjustSeverityForOverride returns one of info, warn, error, hint, off, and
\* a downgrade or an upgrade is answered by its own case.
C10_AdjustTotal ==
    (sev.done /\ sev.base \in BaseCodes) =>
        /\ sev.value \in BaseCodes \cup {RuleSeverity.off}
        /\ sev.override = RuleSeverity.downgrade => sev.via = "downgrade"
        /\ sev.override = RuleSeverity.upgrade => sev.via = "upgrade"

\* a hint was downgraded: the last case of the downgrade switch answered
C10_Witness ==
    /\ sev.done
    /\ sev.base = RuleSeverity.hint
    /\ sev.override = RuleSeverity.downgrade
    /\ sev.value = RuleSeverity.hint
    /\ sev.via = "downgrade"

\* the reference table of the severity adjustment, written out entry by entry
DowngradeTable ==
    [b \in BaseCodes |->
        CASE b = RuleSeverity.error -> RuleSeverity.warn
          [] b = RuleSeverity.warn -> RuleSeverity.info
          [] b = RuleSeverity.info -> RuleSeverity.hint
          [] b = RuleSeverity.hint -> RuleSeverity.hint]

UpgradeTable ==
    [b \in BaseCodes |->
        CASE b = RuleSeverity.hint -> RuleSeverity.info
          [] b = RuleSeverity.info -> RuleSeverity.warn
          [] b = RuleSeverity.warn -> RuleSeverity.error
          [] b = RuleSeverity.error -> RuleSeverity.error]

ExplicitOverrides ==
    {RuleSeverity.off, RuleSeverity.info, RuleSeverity.warn, RuleSeverity.error,
     RuleSeverity.hint}

\* C11: for every base code in {info, warn, error, hint} the adjusted severity
\* equals the reference table: an explicit override (off, info, warn, error,
\* hint) replaces the base; downgrade gives error->warn, warn->info,
\* info->hint, hint->hint; upgrade gives hint->info, info->warn, warn->error,
\* error->error; an absent or `default` override returns the base unchanged.
C11_AdjustEqualsTable ==
    (sev.done /\ sev.base \in BaseCodes) =>
        sev.value =
            CASE sev.override \in ExplicitOverrides -> sev.override
              [] sev.override = RuleSeverity.downgrade -> DowngradeTable[sev.base]
              [] sev.override = RuleSeverity.upgrade -> UpgradeTable[sev.base]
              [] OTHER -> sev.base

\* an info base was upgraded one level, to warn
C11_Witness ==
    /\ sev.done
    /\ sev.base = RuleSeverity.info
    /\ sev.override = RuleSeverity.upgrade
    /\ sev.value = RuleSeverity.warn

\* every rule of the sequence carries a base code as its severity
AllBase(rules) == \A k \in 1..Len(rules) : rules[k].severity \in BaseCodes

Mutations == {"append", "disable"}

DisabledFirstMatch ==
    /\ cat.op = "disable"
    /\ cat.before.kind = "json"
    /\ findIndex(cat.before.rules, cat.ruleId) > 0
    /\ cat.wrote /\ ~cat.writeFailed

\* C13: setSeverity on a catalog holding a rule with the target ruleId changes
\* exactly one thing: the severity of the first such rule becomes the severity
\* the call asks for.  Length, order, every other rule (later rules of the
\* same ruleId too) and every other field of that rule are unchanged.
C13_SetSeverityFrame ==
    DisabledFirstMatch =>
        LET i == findIndex(cat.before.rules, cat.ruleId)
        IN  /\ catalog.kind = "json"
            /\ Len(catalog.rules) = Len(cat.before.rules)
            /\ \A k \in 1..Len(catalog.rules) :
                    k # i => catalog.rules[k] = cat.before.rules[k]
            /\ catalog.rules[i] =
                    [cat.before.rules[i] EXCEPT !.severity = RequestedSeverity]

\* an append whose write succeeded
AppendedOk == cat.op = "append" /\ cat.wrote /\ ~cat.writeFailed

\* C14: after an append(rules) whose write succeeded, the persisted catalog is
\* the catalog as loaded immediately before the call followed by `rules`, in
\* order, with duplicates kept: a catalog that was a JSON array is loaded as
\* its rules, so each stored rule stays at its position.  The file written
\* loads as what was written, so a sequence of successful appends leaves the
\* initial catalog followed by all appended sequences in call order.
C14_AppendConcatenates ==
    AppendedOk =>
        /\ catalog.kind = "json"
        /\ catalog.rules = cat.returned \o cat.appended
        /\ cat.before.kind = "json" => cat.returned = cat.before.rules
        /\ \A junk0 \in Junk(catalog.b0), junk188 \in Junk(catalog.b188) :
                readCurrentPattern(catalog, junk0, junk188) =
                    [threw |-> "none", rules |-> catalog.rules, parsed |-> TRUE]

\* a rule already stored was appended again: both copies are kept
C14_Witness ==
    /\ AppendedOk
    /\ cat.before.kind = "json"
    /\ cat.before.rules = <<R1>>
    /\ cat.appended = <<R1>>
    /\ catalog.rules = <<R1, R1>>

\* C15: a failed file write inside append or inside the severity edit
\* (disableRule) is captured and logged inside the operation and does not
\* propagate to the caller, which proceeds.
C15_WriteFailuresAreSwallowed ==
    (cat.op \in Mutations /\ cat.wrote /\ cat.writeFailed) =>
        /\ cat.threw = "none"
        /\ cat.logged

\* the code-action handler answered with its actions
Answered == lsp.op = "codeAction" /\ lsp.threw = "none"

\* C16: for the rule recovered for a diagnostic and the diagnostic's range, if
\* the fix transform of the document's current text within that range yields
\* text (the empty string included), the action's edit holds exactly one
\* document-edit, for the document's URI and current version, with exactly
\* one replace over exactly that range with that text; if the transform
\* yields undefined the edit has no document change.
C16_FixEditShape ==
    Answered =>
        \A k \in 1..Len(lsp.actions) :
            LET d == lsp.actions[k].diagnostics[1]
                rule == lsp.results[d.code + 1].rule
                newText == fixWithRules(getText(doc.text, d.range), rule)
                changes == lsp.actions[k].edit.documentChanges
            IN  IF newText.defined
                THEN /\ Len(changes) = 1
                     /\ changes[1].textDocument = [uri |-> uri, version |-> doc.version]
                     /\ Len(changes[1].edits) = 1
                     /\ changes[1].edits[1].range = d.range
                     /\ changes[1].edits[1].newText = newText.text
                ELSE changes = <<>>

\* an action on an edited document (its last version) whose replace text is
\* the empty string
C16_Witness ==
    /\ Answered
    /\ \E k \in 1..Len(lsp.actions) :
        LET changes == lsp.actions[k].edit.documentChanges
        IN  /\ Len(changes) = 1
            /\ changes[1].edits[1].newText = <<"">>
            /\ changes[1].textDocument.version = MaxVersion

\* Two mutations, one issued after the other, both completed; the first
\* changed the catalog, and the second wrote back a view read before the
\* first's write: the first writer's change is absent from what it wrote.
LostUpdate ==
    \E i \in 1..(Len(hist) - 1) :
        /\ hist[i].ok /\ hist[i + 1].ok
        /\ hist[i].after.rules # hist[i].before.rules
        /\ hist[i + 1].view = hist[i].before.rules

OnePass ==
    /\ doc.open
    /\ lsp.sent /\ published.sent
    /\ published.version = doc.version
    /\ published.findings = lsp.results
    /\ published.diagnostics = makeDiagnostics(lsp.results)
    /\ Len(lsp.calls) = IF IsExcluded(uri.path) THEN 0 ELSE 1

\* C18 as the spec states it: every open, content-change and save event runs
\* exactly one lint and one publication with the document's version, before
\* the next event; and the versions published for the document never
\* decrease.
C18_OnePassPerEventInOrder ==
    [][lsp'.op \in ValidationOps =>
        (OnePass' /\ published'.version >= published.last)]_vars

\* C18, amended: the same, the versions being non-decreasing from an open to
\* the next close (the version of a reopened document is the client's choice)
C18_OnePassPerEventInSession ==
    [][lsp'.op \in ValidationOps =>
        (OnePass' /\ (doc.open => published'.version >= published.version))]_vars

\* a content change was validated: one matcher call, and the publication
\* carries the version the change gave the document
C18_Witness ==
    /\ lsp.op = "change"
    /\ OnePass
    /\ Len(lsp.calls) = 1
    /\ doc.version > 1
    /\ published.last = doc.version

\* C19: for every open, content-change or save event the findings behind the
\* published diagnostics, and the fresh findings of fix resolution, are the
\* matcher's findings for the text the document store holds at that moment
\* (unsaved edits included), published with the version of that text.
C19_DiagnosticsOfCurrentText ==
    /\ (lsp.op \in ValidationOps /\ ~IsExcluded(uri.path)) =>
            /\ published.findings = lint(doc.text, catalog)
            /\ published.version = doc.version
    /\ (lsp.op = "codeAction" /\ Linted /\ ~IsExcluded(uri.path)) =>
            lsp.results = lint(doc.text, catalog)

\* C20: every close event publishes an empty diagnostics list for the
\* document's URI, and nothing non-empty is published for it until it is
\* opened again: in every state where the document is closed, the last
\* diagnostics published for it are empty.
C20_CloseClearsDiagnostics ==
    /\ lsp.op = "close" =>
            /\ ~doc.open
            /\ lsp.sent /\ published.sent
            /\ published.diagnostics = <<>>
    /\ ~doc.open => published.diagnostics = <<>>

\* the document was closed right after a pass that had published findings
\* for it
C20_Witness ==
    /\ lsp.op = "close"
    /\ fresh
    /\ ~IsExcluded(uri.path)
    /\ Len(lint(disk, catalog)) > 0
    /\ published.sent
    /\ published.diagnostics = <<>>

============================================================================
